---- MODULE Spec2Model ----
(***************************************************************************)
(* Model of src/tradingbot.py: the multi-timeframe breakout analysis       *)
(* (get_deriv_data, calculate_winrate, determine_trend,                    *)
(* analyze_volatility) and the webhook branch that calls it.               *)
(*                                                                         *)
(* Numbers.  Python floats are modelled as fixed-point integers counted in *)
(* units of 1/PriceScale (one millionth of a price unit), so that          *)
(* round(x, 5) is a real rounding (to a multiple of 10 units) and the      *)
(* recursive averages of the indicator library keep a fractional part.     *)
(* Divisions round towards minus infinity.  NaN is the sentinel NaN.       *)
(***************************************************************************)
EXTENDS Integers, Sequences, FiniteSets, TLC

VARIABLES
    pc,         \* position of the request: "idle", "fetch_analysis",
                \* "fetch_sl", "fetch_entry", "compute", "returned", "replied";
                \* in SpecFn "fn", "trend_done", "winrate_done"
    df_15m,     \* analyze_volatility's local df_15m (None before the fetch)
    df_5m,      \* analyze_volatility's local df_5m
    df_1m,      \* analyze_volatility's local df_1m
    locals,     \* atr_sl, atr_tp, support, resistance, last_close, buffer, trend
    fetched,    \* granularities requested from the candle source, in order
    ret,        \* value returned by analyze_volatility (None or the dict)
    exit_line,  \* source line of the return statement taken (0: none yet)
    reply,      \* webhook's message kind for the request
    prev,       \* SpecLogged: the previous request's exit_line, whether it
                \* returned None, and its reply
    data,       \* SpecFn: the series handed to the classifier / estimator
    out         \* SpecFn: what the function returned

vars == <<pc, df_15m, df_5m, df_1m, locals, fetched, ret, exit_line, reply,
          prev, data, out>>

----------------------------------------------------------------------------
(* Program constants *)

MinTrendCandles == 100
MinRiskCandles == 50
MinEntryCandles == 10
AtrLength == 14
EmaFast == 20
EmaSlow == 50
RollWindow == 50
SlMultiple == 3
WinrateMinCandles == 100
TrendMinCandles == 50
PriceScale == 1000000

(* Bounds of the model *)

MaxExtra == 1
MaxSpread == 1
MaxDelta == 1

----------------------------------------------------------------------------
(* Values *)

None == [none |-> TRUE]
NaN == -1
NonNumeric == -2
Tick == PriceScale \div 100
RoundStep == PriceScale \div 100000

Max2(a, b) == IF a >= b THEN a ELSE b
Min2(a, b) == IF a <= b THEN a ELSE b
Abs(a) == IF a >= 0 THEN a ELSE -a
Last(s) == s[Len(s)]

RECURSIVE SumTo(_, _)
SumTo(s, k) == IF k = 0 THEN 0 ELSE s[k] + SumTo(s, k - 1)

----------------------------------------------------------------------------
(* The candle source: what the HTTP endpoint may answer *)

TIMEFRAMES == [analysis |-> "15m", sl |-> "5m", entry |-> "1m"]

Granularity(tf) == IF tf = "15m" THEN 900 ELSE IF tf = "5m" THEN 300 ELSE 60

\* close of bar i (1-based) of a series that starts at c0 and repeats the
\* tick deltas of pat
GenClose(c0, pat, i) ==
    LET p == Len(pat)
        k == i - 1
    IN c0 + Tick * ((k \div p) * SumTo(pat, p) + SumTo(pat, k % p))

\* epoch of bar i; defect "dup" repeats the last timestamp, "unsorted" swaps
\* the last two
GenEpoch(tf, n, defect, i) ==
    LET g == Granularity(tf)
    IN IF defect = "dup" /\ i = n THEN (n - 1) * g
       ELSE IF defect = "unsorted" /\ i = n THEN (n - 1) * g
       ELSE IF defect = "unsorted" /\ i = n - 1 THEN n * g
       ELSE i * g

GenCandle(tf, n, c0, pat, spread, defect, i) ==
    LET c == GenClose(c0, pat, i)
        o == IF i = 1 THEN c0 ELSE GenClose(c0, pat, i - 1)
    IN [epoch |-> GenEpoch(tf, n, defect, i),
        open |-> o,
        high |-> Max2(o, c) + spread * Tick,
        low |-> Min2(o, c) - spread * Tick,
        close |-> c]

GenCandles(tf, n, c0, pat, spread, defect) ==
    [i \in 1..n |-> GenCandle(tf, n, c0, pat, spread, defect, i)]

OkResponse(candles) == [status |-> 200, error |-> FALSE, candles |-> candles]

\* the same candles with one field left out of every record
Without(candles, f) ==
    [i \in 1..Len(candles) |->
        [k \in (DOMAIN candles[i]) \ {f} |-> candles[i][k]]]

\* the same candles with a non-numeric close in the last record
WithBadPrice(candles) ==
    [candles EXCEPT ![Len(candles)].close = NonNumeric]

----------------------------------------------------------------------------
(* Data frames: an index (the 'time' column) and named columns *)

RawColumns(candles) == (DOMAIN candles[1]) \ {"epoch"}

IsNumeric(candles) ==
    \A i \in 1..Len(candles) : \A k \in DOMAIN candles[i] :
        candles[i][k] # NonNumeric

len(df) == Len(df.index)
HasColumns(df, names) == names \subseteq DOMAIN df.cols

\* df[name] = column
SetColumn(df, name, column) ==
    [df EXCEPT !.cols = (name :> column) @@ df.cols]

\* get_deriv_data, given the endpoint's answer: None on a status other than
\* 200, on an 'error' member, and on any exception while the frame is built
\* (no candles, no 'epoch' key to rename to 'time', a value that astype(float)
\* cannot convert)
get_deriv_data(response) ==
    IF response.status # 200 THEN None
    ELSE IF response.error THEN None
    ELSE LET candles == response.candles
         IN IF Len(candles) = 0 THEN None
            ELSE IF "epoch" \notin DOMAIN candles[1] THEN None
            ELSE IF ~IsNumeric(candles) THEN None
            ELSE [index |-> [i \in 1..Len(candles) |-> candles[i].epoch],
                  cols |-> [k \in RawColumns(candles) |->
                               [i \in 1..Len(candles) |-> candles[i][k]]]]

----------------------------------------------------------------------------
(* Indicator library calls (pandas_ta) and pandas windows *)

\* mean of the first k values, as first value plus the mean offset
Sma(values, k) ==
    LET offsets == [i \in 1..k |-> values[i] - values[1]]
    IN values[1] + SumTo(offsets, k) \div k

EmaStep(prevEma, value, length) ==
    prevEma + (2 * (value - prevEma)) \div (length + 1)

RECURSIVE EmaRun(_, _, _)
EmaRun(values, length, acc) ==
    IF Len(acc) = Len(values) THEN acc
    ELSE LET i == Len(acc) + 1
         IN EmaRun(values, length,
                   Append(acc, IF i < length THEN NaN
                               ELSE IF i = length THEN Sma(values, length)
                               ELSE EmaStep(acc[i - 1], values[i], length)))

\* ta.ema(close, length): undefined for the first length-1 bars, seeded by the
\* simple average of the first length values, then smoothed by 2/(length+1)
ema(close, length) == EmaRun(close, length, <<>>)

\* true range of bar i; the first bar has no previous close
TrueRange(high, low, close, i) ==
    IF i = 1 THEN NaN
    ELSE Max2(high[i] - low[i],
              Max2(Abs(high[i] - close[i - 1]), Abs(low[i] - close[i - 1])))

\* acc: the column so far; prevAtr: the running average behind it
RECURSIVE AtrRun(_, _, _, _, _, _)
AtrRun(high, low, close, length, acc, prevAtr) ==
    IF Len(acc) = Len(close) THEN acc
    ELSE LET i == Len(acc) + 1
             tr == TrueRange(high, low, close, i)
             cur == IF i = 1 THEN NaN
                    ELSE IF i = 2 THEN tr
                    ELSE prevAtr + (tr - prevAtr) \div length
         IN AtrRun(high, low, close, length,
                   Append(acc, IF i <= length THEN NaN ELSE cur), cur)

\* ta.atr(high, low, close, length): Wilder's running average (factor
\* 1/length) of the true range, started at the first true range; the bars
\* before length true ranges are available are undefined.  (The library's
\* other conventions differ in the start of the average only; all of them
\* give a non-negative value that is 0, up to the float epsilon, when every
\* bar has high = low = close.)
atr(high, low, close, length) == AtrRun(high, low, close, length, <<>>, NaN)

RECURSIVE MinFrom(_, _, _)
MinFrom(s, i, j) == IF i = j THEN s[i] ELSE Min2(s[i], MinFrom(s, i + 1, j))

RECURSIVE MaxFrom(_, _, _)
MaxFrom(s, i, j) == IF i = j THEN s[i] ELSE Max2(s[i], MaxFrom(s, i + 1, j))

\* column.rolling(window).min().iloc[-1]
RollingMinLast(column, window) ==
    IF Len(column) < window THEN NaN
    ELSE MinFrom(column, Len(column) - window + 1, Len(column))

\* column.rolling(window).max().iloc[-1]
RollingMaxLast(column, window) ==
    IF Len(column) < window THEN NaN
    ELSE MaxFrom(column, Len(column) - window + 1, Len(column))

\* round(x, 5): to the nearest multiple of RoundStep units, ties to even
Round5(x) ==
    LET r == x % RoundStep
        down == x - r
    IN IF 2 * r < RoundStep THEN down
       ELSE IF 2 * r > RoundStep THEN down + RoundStep
       ELSE IF (down \div RoundStep) % 2 = 0 THEN down
       ELSE down + RoundStep

\* a > b on floats: False when either side is NaN
Gt(a, b) == a # NaN /\ b # NaN /\ a > b
Lt(a, b) == a # NaN /\ b # NaN /\ a < b

----------------------------------------------------------------------------
(* calculate_winrate *)

\* sign of close.pct_change() at bar i (bars 2..n); NaN when it is 0/0
PctChangeSign(close, i) ==
    LET p == close[i - 1]
        c == close[i]
    IN IF p = 0 THEN (IF c = 0 THEN NaN ELSE IF c > 0 THEN 1 ELSE 0)
       ELSE IF (p > 0 /\ c > p) \/ (p < 0 /\ c < p) THEN 1 ELSE 0

\* f"{x:.1f}%" of x = tenths/10, tenths already rounded
FormatPercent(tenths) ==
    ToString(tenths \div 10) \o "." \o ToString(tenths % 10) \o "%"

\* 1000 * wins / total rounded to an integer, ties to even
PercentTenths(wins, total) ==
    LET q == (1000 * wins) \div total
        r == (1000 * wins) % total
    IN IF 2 * r < total THEN q
       ELSE IF 2 * r > total THEN q + 1
       ELSE IF q % 2 = 0 THEN q ELSE q + 1

\* calculate_winrate counting unchanged closes as wins
calculate_winrate_ge(df) ==
    IF len(df) < WinrateMinCandles THEN "N/A"
    ELSE LET close == df.cols["close"]
             wins == {i \in 2..Len(close) : close[i] >= close[i - 1]}
         IN FormatPercent(PercentTenths(Cardinality(wins), Len(close) - 1))

calculate_winrate(df) ==
    IF len(df) < WinrateMinCandles THEN "N/A"
    ELSE LET close == df.cols["close"]
             changes == {i \in 2..Len(close) : PctChangeSign(close, i) # NaN}
             wins == {i \in changes : PctChangeSign(close, i) > 0}
         IN FormatPercent(PercentTenths(Cardinality(wins), Cardinality(changes)))

----------------------------------------------------------------------------
(* determine_trend: the frame it leaves behind and the label it returns *)

\* lines 134-136: nothing below 50 candles, else the two EMA columns are
\* attached to the frame that was passed in
determine_trend_data(df) ==
    IF len(df) < TrendMinCandles THEN df
    ELSE SetColumn(SetColumn(df, "EMA20", ema(df.cols["close"], EmaFast)),
                   "EMA50", ema(df.cols["close"], EmaSlow))

\* determine_trend with a non-strict comparison
determine_trend_ge(after) ==
    IF len(after) < TrendMinCandles THEN "N/A"
    ELSE IF Last(after.cols["EMA20"]) >= Last(after.cols["EMA50"])
         THEN "Up trend"
         ELSE "Down trend"

\* lines 134, 137: the label, read from the frame as the call left it
determine_trend(after) ==
    IF len(after) < TrendMinCandles THEN "N/A"
    ELSE IF Gt(Last(after.cols["EMA20"]), Last(after.cols["EMA50"]))
         THEN "Up trend"
         ELSE "Down trend"

----------------------------------------------------------------------------
(* Inputs: the answers the candle source may give for each granularity *)

ErrorResponses ==
    {[status |-> 500, error |-> FALSE, candles |-> <<>>],
     [status |-> 200, error |-> TRUE, candles |-> <<>>]}

\* 15m shapes, in ticks: rising, falling, flat and a rising zigzag.  With 100
\* bars the rising and falling shapes have support 100.00 and resistance
\* 110.00 (buffer 0.05).
Rising == [c0 |-> 9020, pat |-> <<20>>, spread |-> 0]
Falling == [c0 |-> 11980, pat |-> <<-20>>, spread |-> 0]
Flat == [c0 |-> 10500, pat |-> <<0>>, spread |-> 0]

TrendShapes ==
    {Rising, Falling, Flat,
     [c0 |-> 9000, pat |-> <<30, -10>>, spread |-> MaxSpread]}

RiskShapes ==
    {Flat} \cup {[c0 |-> 10500, pat |-> <<3, -2>>, spread |-> sp] :
                    sp \in 0..MaxSpread}

\* last prices of the 1m series, in ticks
EntryLevels == {9000, 9994, 11003, 11006, 12000}

Lengths(minimum) == (minimum - 1)..(minimum + MaxExtra)

Candles(timeframe, n, shape, defect) ==
    GenCandles(timeframe, n, shape.c0 * Tick, shape.pat, shape.spread, defect)

TrendResponses ==
    ErrorResponses
    \cup {OkResponse(Candles("15m", n, sh, "none")) :
            n \in Lengths(MinTrendCandles), sh \in TrendShapes}
    \cup {OkResponse(Candles("15m", MinTrendCandles, Rising, d)) :
            d \in {"dup", "unsorted"}}
    \cup {OkResponse(Without(Candles("15m", MinTrendCandles, Rising, "none"), "low"))}
    \cup {OkResponse(WithBadPrice(Candles("15m", MinTrendCandles, Rising, "none")))}

RiskResponses ==
    ErrorResponses
    \cup {OkResponse(Candles("5m", n, sh, "none")) :
            n \in Lengths(MinRiskCandles), sh \in RiskShapes}
    \cup {OkResponse(Candles("5m", MinRiskCandles, Flat, "dup"))}
    \cup {OkResponse(Without(Candles("5m", MinRiskCandles, Flat, "none"), "high"))}

EntryCandles(n, level, defect) ==
    Candles("1m", n, [c0 |-> level, pat |-> <<0>>, spread |-> 0], defect)

EntryResponses ==
    ErrorResponses
    \cup {OkResponse(EntryCandles(n, lv, "none")) :
            n \in Lengths(MinEntryCandles), lv \in EntryLevels}
    \cup {OkResponse(EntryCandles(MinEntryCandles, 12000, "unsorted"))}
    \cup {OkResponse(Without(EntryCandles(MinEntryCandles, 12000, "none"), "close"))}
    \cup {OkResponse(WithBadPrice(EntryCandles(MinEntryCandles, 12000, "none")))}

Responses(timeframe) ==
    IF timeframe = "15m" THEN TrendResponses
    ELSE IF timeframe = "5m" THEN RiskResponses
    ELSE EntryResponses

----------------------------------------------------------------------------
(* State of one request *)

NoLocals ==
    [atr_sl |-> NaN, atr_tp |-> NaN, support |-> NaN, resistance |-> NaN,
     last_close |-> NaN, buffer |-> NaN, trend |-> "", signal |-> ""]

NoPrev == [exit_line |-> 0, returned_none |-> FALSE, reply |-> ""]

Init ==
    /\ pc = "idle"
    /\ df_15m = None /\ df_5m = None /\ df_1m = None
    /\ locals = NoLocals
    /\ fetched = <<>>
    /\ ret = None
    /\ exit_line = 0
    /\ reply = ""
    /\ prev = NoPrev
    /\ data = None
    /\ out = ""

\* webhook, lines 237-239: a message naming an instrument starts an analysis;
\* the locals of the previous request are gone.  With logged, what the
\* previous request returned and answered is kept in prev.
Accept(logged) ==
    /\ pc \in {"idle", "replied"}
    /\ pc' = "fetch_analysis"
    /\ df_15m' = None /\ df_5m' = None /\ df_1m' = None
    /\ locals' = NoLocals
    /\ fetched' = <<>>
    /\ ret' = None
    /\ exit_line' = 0
    /\ reply' = ""
    /\ prev' = IF logged /\ pc = "replied"
               THEN [exit_line |-> exit_line, returned_none |-> ret = None,
                     reply |-> reply]
               ELSE prev
    /\ UNCHANGED <<data, out>>

Webhook == Accept(FALSE)

WebhookLogged == Accept(TRUE)

\* Get15m rejecting a series of exactly the minimum length
Get15mOffByOne ==
    /\ pc = "fetch_analysis"
    /\ \E response \in TrendResponses :
         LET df == get_deriv_data(response)
         IN /\ df_15m' = df
            /\ IF df = None \/ len(df) <= MinTrendCandles
               THEN pc' = "returned" /\ ret' = None /\ exit_line' = 146
               ELSE pc' = "fetch_sl" /\ UNCHANGED <<ret, exit_line>>
    /\ fetched' = Append(fetched, "15m")
    /\ UNCHANGED <<df_5m, df_1m, locals, reply, prev, data, out>>

\* lines 142-146: get 15m data for trend
Get15m ==
    /\ pc = "fetch_analysis"
    /\ \E response \in Responses(TIMEFRAMES.analysis) :
         LET df == get_deriv_data(response)
         IN /\ df_15m' = df
            /\ IF df = None \/ len(df) < MinTrendCandles
               THEN pc' = "returned" /\ ret' = None /\ exit_line' = 146
               ELSE pc' = "fetch_sl" /\ UNCHANGED <<ret, exit_line>>
    /\ fetched' = Append(fetched, TIMEFRAMES.analysis)
    /\ UNCHANGED <<df_5m, df_1m, locals, reply, prev, data, out>>

\* Get5m going on to the entry fetch whatever it got
Get5mNoStop ==
    /\ pc = "fetch_sl"
    /\ \E response \in RiskResponses : df_5m' = get_deriv_data(response)
    /\ pc' = "fetch_entry"
    /\ fetched' = Append(fetched, "5m")
    /\ UNCHANGED <<df_15m, df_1m, locals, reply, prev, data, out, ret, exit_line>>

\* lines 148-152: get 5m data for SL
Get5m ==
    /\ pc = "fetch_sl"
    /\ \E response \in Responses(TIMEFRAMES.sl) :
         LET df == get_deriv_data(response)
         IN /\ df_5m' = df
            /\ IF df = None \/ len(df) < MinRiskCandles
               THEN pc' = "returned" /\ ret' = None /\ exit_line' = 152
               ELSE pc' = "fetch_entry" /\ UNCHANGED <<ret, exit_line>>
    /\ fetched' = Append(fetched, TIMEFRAMES.sl)
    /\ UNCHANGED <<df_15m, df_1m, locals, reply, prev, data, out>>

\* lines 154-158: get 1m data for entry
Get1m ==
    /\ pc = "fetch_entry"
    /\ \E response \in Responses(TIMEFRAMES.entry) :
         LET df == get_deriv_data(response)
         IN /\ df_1m' = df
            /\ IF df = None \/ len(df) < MinEntryCandles
               THEN pc' = "returned" /\ ret' = None /\ exit_line' = 158
               ELSE pc' = "compute" /\ UNCHANGED <<ret, exit_line>>
    /\ fetched' = Append(fetched, TIMEFRAMES.entry)
    /\ UNCHANGED <<df_15m, df_5m, locals, reply, prev, data, out>>

----------------------------------------------------------------------------
(* analyze_volatility, lines 160-203 *)

\* the one instrument the requests name
Symbol == "EURUSD"

OHLC == {"high", "low", "close"}

\* line 170
Buffer(resistance, support) == (5 * (resistance - support)) \div 1000

\* BuyCondition without the buffer zone
BuyConditionNoBuffer(last_close, resistance, buffer, trend) ==
    Gt(last_close, resistance) /\ trend = "Up trend"

\* line 176
BuyCondition(last_close, resistance, buffer, trend) ==
    Gt(last_close, resistance + buffer) /\ trend = "Up trend"

\* line 178
SellCondition(last_close, support, buffer, trend) ==
    Lt(last_close, support - buffer) /\ trend = "Down trend"

\* lines 176-179: the direction, "" when signal stays None
Direction(last_close, support, resistance, buffer, trend) ==
    IF BuyCondition(last_close, resistance, buffer, trend) THEN "BUY"
    ELSE IF SellCondition(last_close, support, buffer, trend) THEN "SELL"
    ELSE ""

\* lines 177, 179
StopLoss(direction, last_close, atr_sl) ==
    IF direction = "BUY" THEN last_close - atr_sl * SlMultiple
    ELSE last_close + atr_sl * SlMultiple

\* lines 187, 188
TakeProfit(direction, entry, atr_tp, multiple) ==
    IF direction = "BUY" THEN entry + atr_tp * multiple
    ELSE entry - atr_tp * multiple

\* lines 161-164: the frame with its ATR column attached
WithATR(df) ==
    SetColumn(df, "ATR",
              atr(df.cols["high"], df.cols["low"], df.cols["close"], AtrLength))

\* lines 190-199
SignalDict(direction, entry, sl, tp1, tp2, trend, winrate) ==
    [symbol |-> Symbol, signal |-> direction, winrate |-> winrate,
     trend |-> trend, entry |-> Round5(entry), sl |-> Round5(sl),
     tp1 |-> Round5(tp1), tp2 |-> Round5(tp2)]

\* the except clause, lines 201-203
Caught ==
    /\ ret' = None
    /\ exit_line' = 203

\* Locals with the two ATR feeds exchanged
LocalsSwapped(d15, d5, d1) ==
    LET support == RollingMinLast(d15.cols["low"], RollWindow)
        resistance == RollingMaxLast(d15.cols["high"], RollWindow)
        last_close == Last(d1.cols["close"])
        buffer == (5 * (resistance - support)) \div 1000
        trend == IF Gt(Last(d15.cols["EMA20"]), Last(d15.cols["EMA50"]))
                 THEN "Up trend" ELSE "Down trend"
    IN [atr_sl |-> Last(d15.cols["ATR"]),
        atr_tp |-> Last(d5.cols["ATR"]),
        support |-> support,
        resistance |-> resistance,
        last_close |-> last_close,
        buffer |-> buffer,
        trend |-> trend,
        signal |-> IF Gt(last_close, resistance + buffer) /\ trend = "Up trend"
                   THEN "BUY"
                   ELSE IF Lt(last_close, support - buffer) /\ trend = "Down trend"
                   THEN "SELL" ELSE ""]

\* lines 163-173 and 176-179, read from the frames as lines 161, 162 and 173
\* left them
Locals(d15, d5, d1) ==
    LET support == RollingMinLast(d15.cols["low"], RollWindow)
        resistance == RollingMaxLast(d15.cols["high"], RollWindow)
        last_close == Last(d1.cols["close"])
        buffer == Buffer(resistance, support)
        trend == determine_trend(d15)
    IN [atr_sl |-> Last(d5.cols["ATR"]),
        atr_tp |-> Last(d15.cols["ATR"]),
        support |-> support,
        resistance |-> resistance,
        last_close |-> last_close,
        buffer |-> buffer,
        trend |-> trend,
        signal |-> Direction(last_close, support, resistance, buffer, trend)]

\* lines 181-199
Result(loc, d15) ==
    IF loc.signal = "" THEN None
    ELSE LET entry == loc.last_close
             sl == StopLoss(loc.signal, loc.last_close, loc.atr_sl)
             tp1 == TakeProfit(loc.signal, entry, loc.atr_tp, 1)
             tp2 == TakeProfit(loc.signal, entry, loc.atr_tp, 2)
         IN SignalDict(loc.signal, entry, sl, tp1, tp2, loc.trend,
                       calculate_winrate(d15))

\* lines 160-203 for three frames that passed the length checks.  A frame
\* without a column raises KeyError where the column is first read (line 161,
\* 162 or 169); what was assigned before stays assigned.
Compute ==
    /\ pc = "compute"
    /\ pc' = "returned"
    /\ IF ~HasColumns(df_5m, OHLC)
       THEN Caught /\ UNCHANGED <<df_5m, df_15m, locals>>
       ELSE /\ df_5m' = WithATR(df_5m)
            /\ IF ~HasColumns(df_15m, OHLC)
               THEN Caught /\ UNCHANGED <<df_15m, locals>>
               ELSE IF ~HasColumns(df_1m, {"close"})
               THEN /\ Caught
                    /\ df_15m' = WithATR(df_15m)
                    /\ locals' =
                         [locals EXCEPT
                            !.atr_sl = Last(df_5m'.cols["ATR"]),
                            !.atr_tp = Last(df_15m'.cols["ATR"]),
                            !.support = RollingMinLast(df_15m.cols["low"], RollWindow),
                            !.resistance = RollingMaxLast(df_15m.cols["high"], RollWindow)]
               ELSE /\ df_15m' = determine_trend_data(WithATR(df_15m))
                    /\ locals' = Locals(df_15m', df_5m', df_1m)
                    /\ ret' = Result(locals', df_15m')
                    /\ exit_line' = IF locals'.signal = "" THEN 183 ELSE 190
    /\ UNCHANGED <<df_1m, fetched, reply, prev, data, out>>

\* webhook, lines 241-254: the message built from what analyze_volatility
\* returned
Reply ==
    /\ pc = "returned"
    /\ pc' = "replied"
    /\ reply' = IF ret # None THEN "analysis" ELSE "no_opportunity"
    /\ UNCHANGED <<df_15m, df_5m, df_1m, locals, fetched, ret, exit_line,
                   prev, data, out>>

Next == Webhook \/ Get15m \/ Get5m \/ Get1m \/ Compute \/ Reply

Spec == Init /\ [][Next]_vars

\* the same requests, with the previous request's outcome kept
NextLogged == WebhookLogged \/ Get15m \/ Get5m \/ Get1m \/ Compute \/ Reply

SpecLogged == Init /\ [][NextLogged]_vars

----------------------------------------------------------------------------
(* The classifier and the estimator on their own: determine_trend and      *)
(* calculate_winrate applied to one frame                                  *)

Frame(candles) == get_deriv_data(OkResponse(candles))

\* closes 10, 11, 10, 12, 13, 12, 14
ExampleShape == [c0 |-> 1000, pat |-> <<100, -100, 200>>, spread |-> 0]
FnPatterns == [1..3 -> (-MaxDelta)..MaxDelta]

FnLengths == Lengths(TrendMinCandles) \cup Lengths(WinrateMinCandles)

FnInputs ==
    {Frame(Candles("15m", 7, ExampleShape, "none"))}
    \cup {Frame(Candles("15m", n, [c0 |-> 10500, pat |-> p, spread |-> 0], "none")) :
            n \in FnLengths, p \in FnPatterns}

InitFn ==
    /\ pc = "fn"
    /\ data \in FnInputs
    /\ out = ""
    /\ df_15m = None /\ df_5m = None /\ df_1m = None
    /\ locals = NoLocals
    /\ fetched = <<>>
    /\ ret = None
    /\ exit_line = 0
    /\ reply = ""
    /\ prev = NoPrev

\* lines 132-137
ApplyTrend ==
    /\ pc = "fn"
    /\ pc' = "trend_done"
    /\ data' = determine_trend_data(data)
    /\ out' = determine_trend(data')
    /\ UNCHANGED <<df_15m, df_5m, df_1m, locals, fetched, ret, exit_line,
                   reply, prev>>

\* lines 126-130
ApplyWinrate ==
    /\ pc = "fn"
    /\ pc' = "winrate_done"
    /\ out' = calculate_winrate(data)
    /\ UNCHANGED <<data, df_15m, df_5m, df_1m, locals, fetched, ret,
                   exit_line, reply, prev>>

NextFn == ApplyTrend \/ ApplyWinrate

SpecFn == InitFn /\ [][NextFn]_vars

----------------------------------------------------------------------------
(* Properties *)

RawNames == {"open", "high", "low", "close"}

\* analyze_volatility has returned (ret stays until the next request)
Returned == pc \in {"returned", "replied"}

\* a signal was emitted
Emitted == Returned /\ ret # None

StrictlyIncreasing(index) ==
    \A i \in 1..(Len(index) - 1) : index[i] < index[i + 1]

\* the outcome the spec's taxonomy gives to each return statement
Outcome(line) ==
    IF line \in {146, 152, 158} THEN "InsufficientData"
    ELSE IF line = 183 THEN "NoOpportunity"
    ELSE IF line = 203 THEN "InvalidInput"
    ELSE "Signal"

\* C1: every emitted signal is strictly ordered: BUY has sl < entry < tp1 <
\* tp2, SELL has tp2 < tp1 < entry < sl.
C1_StrictOrdering ==
    Emitted =>
        /\ ret.signal = "BUY" =>
             ret.sl < ret.entry /\ ret.entry < ret.tp1 /\ ret.tp1 < ret.tp2
        /\ ret.signal = "SELL" =>
             ret.tp2 < ret.tp1 /\ ret.tp1 < ret.entry /\ ret.entry < ret.sl

\* C2: once the three series passed their length checks and the decision was
\* taken, BUY is returned exactly when the last 1m close is above resistance
\* plus buffer in an up trend, SELL exactly when it is below support minus
\* buffer in a down trend, nothing otherwise, and never both; no signal is
\* returned on any other path.
C2_BreakoutRule ==
    /\ Emitted => exit_line = 190
    /\ (Returned /\ exit_line \in {183, 190}) =>
           LET close == Last(df_1m.cols["close"])
               resistance == RollingMaxLast(df_15m.cols["high"], RollWindow)
               support == RollingMinLast(df_15m.cols["low"], RollWindow)
               zone == (5 * (resistance - support)) \div 1000
               buy == close > resistance + zone /\ locals.trend = "Up trend"
               sell == close < support - zone /\ locals.trend = "Down trend"
           IN /\ (ret # None /\ ret.signal = "BUY") <=> buy
              /\ (ret # None /\ ret.signal = "SELL") <=> sell
              /\ ~(buy /\ sell)
              /\ (~buy /\ ~sell) => (ret = None /\ exit_line = 183)

\* C2's case: resistance 110.00, support 100.00, buffer 0.05, close 110.03 in
\* an up trend: inside the buffer zone, no signal
C2_Witness ==
    /\ Returned /\ exit_line = 183
    /\ locals.resistance = 110 * PriceScale
    /\ locals.support = 100 * PriceScale
    /\ locals.buffer = 5 * Tick
    /\ locals.last_close = 11003 * Tick
    /\ locals.trend = "Up trend"
    /\ ret = None

NoColumnMissing ==
    /\ HasColumns(df_15m, OHLC) /\ HasColumns(df_5m, OHLC)
    /\ HasColumns(df_1m, {"close"})

\* C3: the analysis returns None without a decision when the 15m series has
\* fewer than 100 candles, the 5m series fewer than 50 or the 1m series fewer
\* than 10, and for a fetched series only then; with at least 100 / 50 / 10
\* candles (each with its price columns) it reaches the breakout decision.
C3_LengthGates ==
    Returned =>
        /\ (df_15m # None /\ len(df_15m) < 100) => (ret = None /\ exit_line = 146)
        /\ (df_5m # None /\ len(df_5m) < 50) => (ret = None /\ exit_line = 152)
        /\ (df_1m # None /\ len(df_1m) < 10) => (ret = None /\ exit_line = 158)
        /\ exit_line = 146 => (df_15m = None \/ len(df_15m) < 100)
        /\ exit_line = 152 => (df_5m = None \/ len(df_5m) < 50)
        /\ exit_line = 158 => (df_1m = None \/ len(df_1m) < 10)
        /\ exit_line \in {146, 152, 158} => locals = NoLocals
        /\ ( /\ df_15m # None /\ df_5m # None /\ df_1m # None
             /\ len(df_15m) >= 100 /\ len(df_5m) >= 50 /\ len(df_1m) >= 10
             /\ NoColumnMissing )
           => (exit_line \in {183, 190} /\ locals.trend \in {"Up trend", "Down trend"})

\* C3's case: exactly 100 / 50 / 10 candles are analysed
C3_Witness ==
    /\ Returned /\ exit_line = 190
    /\ len(df_15m) = 100 /\ len(df_5m) = 50 /\ len(df_1m) = 10

\* C4: the caller can tell the outcomes apart: two requests that ended with
\* different outcomes (insufficient data, no opportunity, invalid input,
\* signal) did not both hand the caller None.
C4_Discriminated ==
    (pc = "returned" /\ prev.exit_line # 0
        /\ Outcome(prev.exit_line) # Outcome(exit_line))
    => ~(prev.returned_none /\ ret = None)

\* C5 as stated: the distances between the returned levels are exactly 3, 1
\* and 2 times the ATR of the 5m, 15m and 15m series, and entry is the last
\* 1m close.
C5_ExactDistances ==
    Emitted =>
        LET atrRisk == Last(atr(df_5m.cols["high"], df_5m.cols["low"],
                                df_5m.cols["close"], 14))
            atrTarget == Last(atr(df_15m.cols["high"], df_15m.cols["low"],
                                  df_15m.cols["close"], 14))
        IN /\ ret.entry = Last(df_1m.cols["close"])
           /\ Abs(ret.entry - ret.sl) = 3 * atrRisk
           /\ Abs(ret.tp1 - ret.entry) = atrTarget
           /\ Abs(ret.tp2 - ret.entry) = 2 * atrTarget

\* C5 amended: each returned level is the level of the rule rounded to 5
\* decimals: entry from the last 1m close, sl from it and 3 times the latest
\* ATR(14) of the 5m series, tp1 and tp2 from it and 1 and 2 times the latest
\* ATR(14) of the 15m series; BUY subtracts for sl and adds for the targets,
\* SELL mirrors the signs.
C5_RoundedLevels ==
    Emitted =>
        LET close == Last(df_1m.cols["close"])
            atrRisk == Last(atr(df_5m.cols["high"], df_5m.cols["low"],
                                df_5m.cols["close"], 14))
            atrTarget == Last(atr(df_15m.cols["high"], df_15m.cols["low"],
                                  df_15m.cols["close"], 14))
            sign == IF ret.signal = "BUY" THEN 1 ELSE -1
        IN /\ ret.signal \in {"BUY", "SELL"}
           /\ ret.entry = Round5(close)
           /\ ret.sl = Round5(close - sign * 3 * atrRisk)
           /\ ret.tp1 = Round5(close + sign * atrTarget)
           /\ ret.tp2 = Round5(close + sign * 2 * atrTarget)

\* C5's case: a BUY whose two ATRs differ and are not multiples of the
\* rounding step
C5_Witness ==
    /\ Emitted /\ ret.signal = "BUY"
    /\ locals.atr_sl # locals.atr_tp
    /\ locals.atr_sl % RoundStep # 0
    /\ locals.atr_tp % RoundStep # 0

\* C6: determine_trend returns "N/A" below 50 candles; from 50 candles on it
\* returns "Up trend" exactly when the latest EMA20 of the closes is strictly
\* above the latest EMA50, and "Down trend" otherwise.
C6_TrendLabel ==
    pc = "trend_done" =>
        IF Len(data.cols["close"]) < 50 THEN out = "N/A"
        ELSE LET fast == Last(ema(data.cols["close"], 20))
                 slow == Last(ema(data.cols["close"], 50))
             IN /\ out \in {"Up trend", "Down trend"}
                /\ out = "Up trend" <=> fast > slow

\* C6's case: a series of at least 50 candles whose two averages are equal
C6_Witness ==
    /\ pc = "trend_done" /\ len(data) >= 50
    /\ Last(data.cols["EMA20"]) = Last(data.cols["EMA50"])
    /\ out = "Down trend"

\* the seven closes 10, 11, 10, 12, 13, 12, 14
ExampleCloses ==
    <<10 * PriceScale, 11 * PriceScale, 10 * PriceScale, 12 * PriceScale,
      13 * PriceScale, 12 * PriceScale, 14 * PriceScale>>

\* C7 as stated: the share of strictly positive changes among the n-1
\* changes, to one decimal, for the series it is computed on, so the seven
\* example closes give "66.7%"; "N/A" only under 100 candles.
C7_ExampleGivesShare ==
    (pc = "winrate_done" /\ data.cols["close"] = ExampleCloses) => out = "66.7%"

\* C7 amended: from 100 candles on the estimator returns the share of
\* strictly positive changes among the n-1 changes as a percentage with one
\* decimal (4 of 6 is written "66.7%"); under 100 candles, the seven example
\* closes included, it returns "N/A", and only then.
C7_WinrateShare ==
    pc = "winrate_done" =>
        LET close == data.cols["close"]
            n == Len(close)
            wins == Cardinality({i \in 2..n : close[i] > close[i - 1]})
        IN /\ n < 100 <=> out = "N/A"
           /\ n >= 100 =>
                \E tenths \in 0..1000 :
                    /\ 2 * Abs(tenths * (n - 1) - 1000 * wins) <= n - 1
                    /\ out = FormatPercent(tenths)
           /\ FormatPercent(PercentTenths(4, 6)) = "66.7%"

\* C7's case: at least 100 candles, some changes positive and some not
C7_Witness ==
    /\ pc = "winrate_done" /\ len(data) >= 100
    /\ out \notin {"N/A", "0.0%", "100.0%"}

\* C8: the frames handed to the indicator and classifier steps hold the
\* columns they were fetched with, and no other.
C8_InputsUnchanged ==
    /\ df_15m # None => DOMAIN df_15m.cols \subseteq RawNames
    /\ df_5m # None => DOMAIN df_5m.cols \subseteq RawNames

\* C9: no signal is emitted from a series whose timestamps repeat or go back.
C9_NoSignalFromMalformed ==
    Emitted =>
        /\ StrictlyIncreasing(df_15m.index)
        /\ StrictlyIncreasing(df_5m.index)
        /\ StrictlyIncreasing(df_1m.index)

IsPrefix(s, t) == Len(s) <= Len(t) /\ \A i \in 1..Len(s) : s[i] = t[i]

Derived(df) == df # None /\ ~(DOMAIN df.cols \subseteq RawNames)

\* C10: the series are requested in the order 15m, 5m, 1m, each at most
\* once; a stage that is unavailable or too short ends the call with None
\* before any later series is requested; nothing is computed before all
\* three stages passed.
C10_FetchOrder ==
    /\ IsPrefix(fetched, <<"15m", "5m", "1m">>)
    /\ pc = "fetch_sl" => (fetched = <<"15m">> /\ len(df_15m) >= 100)
    /\ pc = "fetch_entry" =>
         (fetched = <<"15m", "5m">> /\ df_5m # None /\ len(df_5m) >= 50)
    /\ pc = "compute" =>
         (Len(fetched) = 3 /\ df_1m # None /\ len(df_1m) >= 10)
    /\ exit_line = 146 =>
         /\ fetched = <<"15m">> /\ df_5m = None /\ df_1m = None /\ ret = None
         /\ (df_15m = None \/ len(df_15m) < 100)
    /\ exit_line = 152 =>
         /\ fetched = <<"15m", "5m">> /\ df_1m = None /\ ret = None
         /\ (df_5m = None \/ len(df_5m) < 50)
    /\ exit_line = 158 =>
         /\ Len(fetched) = 3 /\ ret = None
         /\ (df_1m = None \/ len(df_1m) < 10)
    /\ (locals # NoLocals \/ Derived(df_15m) \/ Derived(df_5m)) =>
         (Len(fetched) = 3 /\ exit_line \in {183, 190, 203})

\* C10's case: the 5m fetch is unavailable, the 1m series is never requested
C10_Witness ==
    /\ Returned /\ exit_line = 152
    /\ df_5m = None
    /\ fetched = <<"15m", "5m">>

====
